---- MODULE Spec2Model ----
(***************************************************************************)
(* Model of audio_dictor.py: the Telegram new-message handler that turns   *)
(* a channel message into speech (TTS), writes a WAV file, transcodes it   *)
(* to MP3 with FFmpeg and sends the MP3 to a target chat.                  *)
(*                                                                         *)
(* Every NewMessage event starts one run of handler_new_message as a task  *)
(* of the single-threaded asyncio event loop.  A run gives up the thread   *)
(* only at its three awaits (title lookup, target resolution, send_file);  *)
(* everything between two awaits runs with the thread held.  The tasks of  *)
(* the loop are an unordered collection: the suspended runs and the runs   *)
(* that have returned are kept as bags of run records.                     *)
(*                                                                         *)
(* Before any event is handled the script goes through its start-up: the   *)
(* module body (TTS pipeline, handler registration), the FFmpeg check of   *)
(* the __main__ block, and main(), which starts the client and waits for   *)
(* messages.                                                               *)
(***************************************************************************)
EXTENDS Integers, Sequences, FiniteSets, Bags, TLC

\* ------------------------------------------------------------------ bounds
MaxRuns == 2        \* handler runs (events) per behaviour
MaxMsgId == 1       \* message ids are 1..MaxMsgId
MaxClock == 1       \* the free-running clock ticks up to here (sleeps add more)
MaxSamples == 2     \* longest sample buffer the TTS pipeline returns

\* ------------------------------------------------- configuration (lines 14-30)
\* The one monitored channel id, scaled down from -1001114591086 to fit TLC's
\* 32-bit integers; it stays negative, so abs() still changes it.
CHANNELS_TO_MONITOR == {-1086}
TARGET_CHAT_ENTITY == "me"

VARIABLES
    proc,       \* the process: where the script is, its exit status, its client
    channels,   \* the value of CHANNELS_TO_MONITOR this process was started with
    running,    \* the run holding the event-loop thread (NoRun when the loop is idle)
    waiting,    \* bag of the runs suspended at an await
    finished,   \* bag of what is left of the runs that have returned
    files,      \* paths present in AUDIO_OUTPUT_DIR
    clock       \* int(time.time())

vars == <<proc, channels, running, waiting, finished, files, clock>>

MsgIds == 1..MaxMsgId

\* event.message.text: None (no text body), "" or a non-empty text
Texts == {"None", "", "Hello world"}

\* numpy shapes of output['audio']
Shapes == {<<0>>} \cup {<<1, n>> : n \in 0..MaxSamples}

Abs(x) == IF x < 0 THEN -x ELSE x

\* str(chat_id), for the ids of CHANNELS_TO_MONITOR
Str(x) == IF x = -1086 THEN "-1086" ELSE "?"

\* (variant: the test written as `message_text is None`)
FalsyIsNone(text) == text = "None"

\* Python truthiness of the text: `not message_text` holds for None and ""
Falsy(text) == text = "None" \/ text = ""

\* ndarray.squeeze(): drop every axis of length 1
Squeeze(shape) == SelectSeq(shape, LAMBDA d : d # 1)

\* ndarray.size: the product of the axis lengths (1 for a 0-d array)
RECURSIVE Size(_)
Size(shape) == IF shape = <<>> THEN 1 ELSE Head(shape) * Size(Tail(shape))

\* (variant: the test written on the number of axes, `speech_np.ndim == 0`)
IsEmptyLen(speech_np) == speech_np = <<>>

\* the emptiness test of line 91
IsEmpty(speech_np) == Size(speech_np) = 0

\* (variant: the name without the timestamp)
BaseFilenameNoTime(chat_id, message_id, now) == <<"msg", Abs(chat_id), message_id, 0>>

\* base_filename of line 95: msg_<abs(chat_id)>_<message_id>_<int(time.time())>
BaseFilename(chat_id, message_id, now) == <<"msg", Abs(chat_id), message_id, now>>

\* wav_filepath / mp3_filepath of lines 96-97
WavPath(base) == [base |-> base, ext |-> "wav"]
Mp3Path(base) == [base |-> base, ext |-> "mp3"]

NoBase == <<>>

\* ---------------------------------------------------------------- entities
Absent == "<absent>"

\* the entity client.get_entity(chat_id) returns for a monitored channel: a
\* public channel has a title and a username
EntityOf(chat_id) == [title |-> "News", username |-> "news_channel"]

\* (variant: the two getattr calls nested the other way round)
ChatTitleUsernameFirst(e, chat_id) ==
    IF e.username # Absent THEN e.username
    ELSE IF e.title # Absent THEN e.title
    ELSE Str(chat_id)

\* line 70: getattr(e, 'title', getattr(e, 'username', str(chat_id)))
ChatTitle(e, chat_id) ==
    IF e.title # Absent THEN e.title
    ELSE IF e.username # Absent THEN e.username
    ELSE Str(chat_id)

\* caption of line 153
Caption(chat_title, message_id) == <<"Audio from channel", chat_title, "Message #", message_id>>

\* --------------------------------------------------------------- exceptions
ExcClasses == {"Exception", "CalledProcessError", "FileNotFoundError"}

\* the try statements enclosing each call site, innermost first
TryBlocks(site) ==
    CASE site = "get_title"  -> <<"try68">>
      [] site = "tts"        -> <<"try85">>
      [] site = "write"      -> <<"try85">>
      [] site = "wave_open"  -> <<"try110", "try85">>
      [] site = "ffmpeg"     -> <<"try123", "try85">>
      [] site = "remove"     -> <<"try139", "try85">>
      [] site = "get_target" -> <<"try150">>
      [] site = "send_file"  -> <<"try150">>
      [] OTHER               -> <<>>

\* (variant: every except clause names only the subprocess exceptions)
CatchesNarrow(block) == {"CalledProcessError", "FileNotFoundError"}

\* the exception classes the except clauses of a try statement catch
Catches(block) ==
    IF block = "try123" THEN {"CalledProcessError", "FileNotFoundError"}
    ELSE ExcClasses

\* the try statement that catches exc raised at site, "none" if it escapes
RECURSIVE FirstCatching(_, _)
FirstCatching(blocks, exc) ==
    IF blocks = <<>> THEN "none"
    ELSE IF exc \in Catches(Head(blocks)) THEN Head(blocks)
    ELSE FirstCatching(Tail(blocks), exc)

CaughtBy(site, exc) == FirstCatching(TryBlocks(site), exc)

\* ------------------------------------------------------------------- runs
\* positions of a run that execute with the thread held
SyncPcs == {"text", "tts", "validate", "name", "write", "sleep", "exists",
            "open", "access", "ffmpeg", "remove", "return"}

\* positions of a run suspended at an await (lines 69, 151, 152)
AwaitPcs == {"await_title", "await_target", "await_send"}

\* the run is at a return statement, at the end of the handler, or its
\* exception is leaving the handler ("Escaped")
Finish(rec, result) == [rec EXCEPT !.pc = "return", !.result = result]

Logged(rec, stage, ok) == [rec EXCEPT !.log = Append(@, [stage |-> stage, ok |-> ok])]

\* (variant: the except clauses of lines 131-136 log but do not return)
RaiseNoReturn(rec, site, exc) ==
    LET b == CaughtBy(site, exc) IN
    CASE b = "none"   -> Finish(rec, "Escaped")
      [] b = "try68"  -> [rec EXCEPT !.pc = "text"]
      [] b = "try139" -> [rec EXCEPT !.pc = "await_target"]
      [] b = "try123" -> [rec EXCEPT !.pc = "remove"]
      [] OTHER        -> Finish(rec, "Failed")

\* (variant: a failed call is made again)
RaiseRetry(rec, site, exc) == rec

\* (variant: the except clause of lines 113-115 logs but does not return)
RaiseOpenSwallowed(rec, site, exc) ==
    LET b == CaughtBy(site, exc) IN
    CASE b = "none"   -> Finish(rec, "Escaped")
      [] b = "try68"  -> [rec EXCEPT !.pc = "text"]
      [] b = "try139" -> [rec EXCEPT !.pc = "await_target"]
      [] b = "try110" -> [rec EXCEPT !.pc = "access"]
      [] OTHER        -> Finish(rec, "Failed")

\* (variant: the except clause of lines 142-143 returns)
RaiseRemoveAborts(rec, site, exc) ==
    LET b == CaughtBy(site, exc) IN
    CASE b = "none"   -> Finish(rec, "Escaped")
      [] b = "try68"  -> [rec EXCEPT !.pc = "text"]
      [] OTHER        -> Finish(rec, "Failed")

\* where the run goes when exc is raised at site
Raise(rec, site, exc) ==
    LET b == CaughtBy(site, exc) IN
    CASE b = "none"   -> Finish(rec, "Escaped")
      [] b = "try68"  -> [rec EXCEPT !.pc = "text"]           \* lines 71-74
      [] b = "try139" -> [rec EXCEPT !.pc = "await_target"]   \* lines 142-151
      [] OTHER        -> Finish(rec, "Failed")                \* return, or end of handler

IdleRun == [pc |-> "idle", chat_id |-> 0, message_id |-> 0, text |-> "None",
            chat_title |-> "Unknown", speech_np |-> <<>>,
            base |-> NoBase, log |-> <<>>, sent |-> <<>>, result |-> "none"]

NoRun == IdleRun

\* (variant: the handler never gives the thread back)
ReturnedNever(rec) == rec

\* what is left of a run once its frame is gone: how it ended, the name it
\* derived and how its sf.write call went
Returned(rec) ==
    [IdleRun EXCEPT !.pc = "done", !.result = rec.result, !.base = rec.base,
                    !.log = SelectSeq(rec.log, LAMBDA e : e.stage = "write")]

\* (variant: line 101 written as `await asyncio.sleep(1)`)
HoldsThreadAsyncSleep(rec) == rec.pc \in SyncPcs \ {"sleep"}

\* a run keeps the thread while it is inside a synchronous part
HoldsThread(rec) == rec.pc \in SyncPcs

\* the loop after a step that leaves a run as rec, W being the other suspended
\* runs: rec keeps the thread, or is suspended at its await, or has returned
Place(W, rec) ==
    /\ running' = IF HoldsThread(rec) THEN rec ELSE NoRun
    /\ waiting' = IF HoldsThread(rec) \/ rec.pc = "done" THEN W
                  ELSE W (+) SetToBag({rec})
    /\ finished' = IF rec.pc = "done" THEN finished (+) SetToBag({rec}) ELSE finished

\* a step of the run that holds the thread
Step(rec) == Place(waiting, rec)

\* the loop resumes the suspended run old, which becomes rec
Resume(old, rec) == Place(waiting (-) SetToBag({old}), rec)

\* the runs suspended at the await pc
Suspended(pc) == {rec \in BagToSet(waiting) : rec.pc = pc}

\* number of handler runs started so far
Started ==
    BagCardinality(waiting) + BagCardinality(finished)
        + (IF running = NoRun THEN 0 ELSE 1)

\* ---------------------------------------------------------------- process
\* the outcomes of subprocess.run([FFMPEG_PATH, "-version"], check=True)
FfmpegCheckOutcomes == {"ok"} \cup ExcClasses

\* the process after `python audio_dictor.py` has run lines 1-39: the client
\* object exists, nothing is registered on it and it is not connected.
\* status is the exit status, -1 while the process is alive.
Booted == [pc |-> "load_tts", status |-> -1, handlers |-> {}, connected |-> FALSE,
           ffmpeg |-> "unchecked"]

\* (variant: every exit is a bare exit())
ExitZero(p, code) == [p EXCEPT !.pc = "exited", !.status = 0]

\* exit(code), or the script running off its end (code 0)
Exit(p, code) == [p EXCEPT !.pc = "exited", !.status = code]

\* (variant: line 170 never finds the list empty)
ChannelsEmptyNever(chs) == FALSE

\* line 170: `not CHANNELS_TO_MONITOR`
ChannelsEmpty(chs) == chs = {}

Init ==
    /\ proc = Booted
    /\ channels \in {{}, CHANNELS_TO_MONITOR}
    /\ running = NoRun
    /\ waiting = EmptyBag
    /\ finished = EmptyBag
    /\ files = {}
    /\ clock = 0

\* ------------------------------------------------------------------ actions
\* time passes.  The clock is read at line 95 only, and while a run holds the
\* thread nothing else runs: a second that passes inside a synchronous part
\* shows exactly as one that passes just before the part is entered or just
\* after it is left, so the seconds are taken while the loop has the thread.
Tick ==
    /\ running = NoRun
    /\ clock < MaxClock
    /\ clock' = clock + 1
    /\ UNCHANGED <<running, waiting, finished, files, proc, channels>>

\* lines 42-62: the module body after the client is built.  The TTS pipeline
\* loads, the audio directory is made and the decorator of line 62 registers
\* the handler on the client; or the load raises and line 53 calls exit(),
\* which is exit status 0.
LoadTts(ok) ==
    /\ proc.pc = "load_tts"
    /\ proc' = IF ok THEN [proc EXCEPT !.pc = "check_ffmpeg",
                                       !.handlers = {"handler_new_message"}]
               ELSE Exit(proc, 0)
    /\ UNCHANGED <<channels, running, waiting, finished, files, clock>>

\* lines 185-207: the FFmpeg version check; every exception ends in exit(1)
CheckFfmpeg(outcome) ==
    /\ proc.pc = "check_ffmpeg"
    /\ proc' = IF outcome = "ok" THEN [proc EXCEPT !.pc = "main", !.ffmpeg = outcome]
               ELSE Exit([proc EXCEPT !.ffmpeg = outcome], 1)
    /\ UNCHANGED <<channels, running, waiting, finished, files, clock>>

\* lines 167-180 and 210-215: client.start returns, and main goes on without
\* another await to the test of line 170: with an empty list it returns, and
\* the script ends (status 0); otherwise it awaits run_until_disconnected
ClientStartReturns ==
    /\ proc.pc = "main"
    /\ LET p == [proc EXCEPT !.connected = TRUE] IN
       proc' = IF ChannelsEmpty(channels) THEN Exit(p, 0)
               ELSE [p EXCEPT !.pc = "waiting"]
    /\ UNCHANGED <<channels, running, waiting, finished, files, clock>>

\* lines 167 and 214-215: client.start raises, the exception leaves main and
\* asyncio.run, line 214 logs it and the script ends (status 0)
ClientStartRaises ==
    /\ proc.pc = "main"
    /\ proc' = Exit(proc, 0)
    /\ UNCHANGED <<channels, running, waiting, finished, files, clock>>

\* lines 62-69: while main waits at line 180 the event loop dispatches a
\* NewMessage event of a monitored chat to the registered handler; the handler
\* task runs up to its first await
NewMessage(c, m, t) ==
    /\ proc.pc = "waiting"
    /\ "handler_new_message" \in proc.handlers
    /\ c \in channels
    /\ running = NoRun
    /\ Started < MaxRuns
    /\ Step([IdleRun EXCEPT !.pc = "await_title", !.chat_id = c,
                            !.message_id = m, !.text = t])
    /\ UNCHANGED <<files, clock, proc, channels>>

\* lines 69-70: get_entity(chat_id) returns the entity
TitleReturns(old) ==
    /\ running = NoRun
    /\ old \in Suspended("await_title")
    /\ Resume(old, Logged([old EXCEPT !.pc = "text",
                              !.chat_title = ChatTitle(EntityOf(old.chat_id),
                                                       old.chat_id)],
                          "title", TRUE))
    /\ UNCHANGED <<files, clock, proc, channels>>

\* lines 71-72: get_entity(chat_id) raises
TitleRaises(old) ==
    /\ running = NoRun
    /\ old \in Suspended("await_title")
    /\ Resume(old, Raise(Logged(old, "title", FALSE), "get_title", "Exception"))
    /\ UNCHANGED <<files, clock, proc, channels>>

\* lines 76-81
ReadText ==
    /\ running.pc = "text"
    /\ Step(IF Falsy(running.text) THEN Finish(running, "Skipped")
            ELSE [running EXCEPT !.pc = "tts"])
    /\ UNCHANGED <<files, clock, proc, channels>>

\* lines 86-88: the TTS pipeline returns a buffer
TtsReturns(shape) ==
    /\ running.pc = "tts"
    /\ Step(Logged([running EXCEPT !.pc = "validate", !.speech_np = shape],
                   "synthesis", TRUE))
    /\ UNCHANGED <<files, clock, proc, channels>>

\* lines 86-88, 145-147: the TTS pipeline raises
TtsRaises ==
    /\ running.pc = "tts"
    /\ Step(Raise(Logged(running, "synthesis", FALSE), "tts", "Exception"))
    /\ UNCHANGED <<files, clock, proc, channels>>

\* lines 90-93
Validate ==
    /\ running.pc = "validate"
    /\ LET sq == Squeeze(running.speech_np) IN
       Step(IF IsEmpty(sq)
            THEN Finish(Logged([running EXCEPT !.speech_np = sq], "validation", FALSE),
                        "Failed")
            ELSE Logged([running EXCEPT !.pc = "name", !.speech_np = sq],
                        "validation", TRUE))
    /\ UNCHANGED <<files, clock, proc, channels>>

\* lines 95-97
DeriveName ==
    /\ running.pc = "name"
    /\ Step([running EXCEPT !.pc = "write",
                !.base = BaseFilename(running.chat_id, running.message_id, clock)])
    /\ UNCHANGED <<files, clock, proc, channels>>

\* line 100: sf.write returns.  present = FALSE is the case the check of
\* line 105 is there for: the call returned but the file is not on disk.
\* (speech_np is not read after line 100 and is dropped here)
WriteReturns(present) ==
    /\ running.pc = "write"
    /\ files' = IF present THEN files \cup {WavPath(running.base)} ELSE files
    /\ Step(Logged([running EXCEPT !.pc = "sleep", !.speech_np = <<>>], "write", TRUE))
    /\ UNCHANGED <<clock, proc, channels>>

\* line 100, 145-147: sf.write raises, having created the file (partial) or not
WriteRaises(partial) ==
    /\ running.pc = "write"
    /\ files' = IF partial THEN files \cup {WavPath(running.base)} ELSE files
    /\ Step(Raise(Logged(running, "write", FALSE), "write", "Exception"))
    /\ UNCHANGED <<clock, proc, channels>>

\* (variant: line 101 left out)
SleepNoWait ==
    /\ running.pc = "sleep"
    /\ Step([running EXCEPT !.pc = "exists"])
    /\ UNCHANGED <<files, clock, proc, channels>>

\* line 101: time.sleep(1)
Sleep ==
    /\ running.pc = "sleep"
    /\ clock' = clock + 1
    /\ Step([running EXCEPT !.pc = "exists"])
    /\ UNCHANGED <<files, proc, channels>>

\* lines 105-107
CheckExists ==
    /\ running.pc = "exists"
    /\ Step(IF WavPath(running.base) \notin files
            THEN Finish(Logged(running, "exists", FALSE), "Failed")
            ELSE Logged([running EXCEPT !.pc = "open"], "exists", TRUE))
    /\ UNCHANGED <<files, clock, proc, channels>>

\* lines 110-112
WaveOpens ==
    /\ running.pc = "open"
    /\ Step(Logged([running EXCEPT !.pc = "access"], "open", TRUE))
    /\ UNCHANGED <<files, clock, proc, channels>>

\* lines 113-115
WaveOpenRaises ==
    /\ running.pc = "open"
    /\ Step(Raise(Logged(running, "open", FALSE), "wave_open", "Exception"))
    /\ UNCHANGED <<files, clock, proc, channels>>

\* lines 118-120
CheckAccess(readable) ==
    /\ running.pc = "access"
    /\ Step(IF ~readable
            THEN Finish(Logged(running, "access", FALSE), "Failed")
            ELSE Logged([running EXCEPT !.pc = "ffmpeg"], "access", TRUE))
    /\ UNCHANGED <<files, clock, proc, channels>>

\* lines 124-130: FFmpeg exits with status 0
FfmpegSucceeds ==
    /\ running.pc = "ffmpeg"
    /\ files' = files \cup {Mp3Path(running.base)}
    /\ Step(Logged([running EXCEPT !.pc = "remove"], "transcoding", TRUE))
    /\ UNCHANGED <<clock, proc, channels>>

\* lines 131-136, 145-147: subprocess.run raises
FfmpegRaises(exc) ==
    /\ running.pc = "ffmpeg"
    /\ Step(Raise(Logged(running, "transcoding", FALSE), "ffmpeg", exc))
    /\ UNCHANGED <<files, clock, proc, channels>>

\* lines 140-141, then the handler reaches the await of line 151
RemoveWav ==
    /\ running.pc = "remove"
    /\ files' = files \ {WavPath(running.base)}
    /\ Step(Logged([running EXCEPT !.pc = "await_target"], "remove", TRUE))
    /\ UNCHANGED <<clock, proc, channels>>

\* lines 142-143: os.remove raises
RemoveRaises ==
    /\ running.pc = "remove"
    /\ Step(Raise(Logged(running, "remove", FALSE), "remove", "Exception"))
    /\ UNCHANGED <<files, clock, proc, channels>>

\* lines 151-153: get_entity(TARGET_CHAT_ENTITY) returns and send_file is called
TargetReturns(old) ==
    /\ running = NoRun
    /\ old \in Suspended("await_target")
    /\ Resume(old, Logged([old EXCEPT !.pc = "await_send",
                              !.sent = Append(@, [to |-> TARGET_CHAT_ENTITY,
                                                  file |-> Mp3Path(old.base),
                                                  caption |-> Caption(old.chat_title,
                                                                      old.message_id)])],
                          "resolve", TRUE))
    /\ UNCHANGED <<files, clock, proc, channels>>

\* lines 151, 155-156: get_entity(TARGET_CHAT_ENTITY) raises
TargetRaises(old) ==
    /\ running = NoRun
    /\ old \in Suspended("await_target")
    /\ Resume(old, Raise(Logged(old, "resolve", FALSE), "get_target", "Exception"))
    /\ UNCHANGED <<files, clock, proc, channels>>

\* lines 152-154: send_file returns
SendReturns(old) ==
    /\ running = NoRun
    /\ old \in Suspended("await_send")
    /\ Resume(old, Finish(Logged(old, "transfer", TRUE), "Delivered"))
    /\ UNCHANGED <<files, clock, proc, channels>>

\* lines 152, 155-156: send_file raises
SendRaises(old) ==
    /\ running = NoRun
    /\ old \in Suspended("await_send")
    /\ Resume(old, Raise(Logged(old, "transfer", FALSE), "send_file", "Exception"))
    /\ UNCHANGED <<files, clock, proc, channels>>

\* the handler returns: its locals are dropped and the loop gets the thread back
Return ==
    /\ running.pc = "return"
    /\ Step(Returned(running))
    /\ UNCHANGED <<files, clock, proc, channels>>

Next ==
    \/ Tick
    \/ \E ok \in BOOLEAN : LoadTts(ok)
    \/ \E o \in FfmpegCheckOutcomes : CheckFfmpeg(o)
    \/ ClientStartReturns
    \/ ClientStartRaises
    \/ \E c \in channels, m \in MsgIds, t \in Texts : NewMessage(c, m, t)
    \/ \E old \in BagToSet(waiting) : TitleReturns(old)
    \/ \E old \in BagToSet(waiting) : TitleRaises(old)
    \/ ReadText
    \/ \E s \in Shapes : TtsReturns(s)
    \/ TtsRaises
    \/ Validate
    \/ DeriveName
    \/ \E p \in BOOLEAN : WriteReturns(p)
    \/ \E p \in BOOLEAN : WriteRaises(p)
    \/ Sleep
    \/ CheckExists
    \/ WaveOpens
    \/ WaveOpenRaises
    \/ \E ok \in BOOLEAN : CheckAccess(ok)
    \/ FfmpegSucceeds
    \/ \E x \in ExcClasses : FfmpegRaises(x)
    \/ RemoveWav
    \/ RemoveRaises
    \/ \E old \in BagToSet(waiting) : TargetReturns(old)
    \/ \E old \in BagToSet(waiting) : TargetRaises(old)
    \/ \E old \in BagToSet(waiting) : SendReturns(old)
    \/ \E old \in BagToSet(waiting) : SendRaises(old)
    \/ Return

Spec == Init /\ [][Next]_vars

\* a step of some handler run: a synchronous step of the run holding the
\* thread, or an awaited call of a suspended run returning or raising
RunStep ==
    \/ \E old \in BagToSet(waiting) :
          \/ TitleReturns(old) \/ TitleRaises(old)
          \/ TargetReturns(old) \/ TargetRaises(old)
          \/ SendReturns(old) \/ SendRaises(old)
    \/ ReadText
    \/ \E sh \in Shapes : TtsReturns(sh)
    \/ TtsRaises
    \/ Validate
    \/ DeriveName
    \/ \E p \in BOOLEAN : WriteReturns(p) \/ WriteRaises(p)
    \/ Sleep
    \/ CheckExists
    \/ WaveOpens \/ WaveOpenRaises
    \/ \E ok \in BOOLEAN : CheckAccess(ok)
    \/ FfmpegSucceeds
    \/ \E x \in ExcClasses : FfmpegRaises(x)
    \/ RemoveWav \/ RemoveRaises
    \/ Return

\* every external call eventually returns or raises, and the interpreter goes
\* on with the run that holds the thread
LiveSpec == Init /\ [][Next]_vars /\ WF_vars(RunStep)

\* ================================================================== claims
\* the runs that have started and not returned
Live == (IF running = NoRun THEN {} ELSE {running}) \cup BagToSet(waiting)

\* the run holding the thread is at its return
AtReturn == running.pc = "return"

StageOk(rec, st) == \E i \in 1..Len(rec.log) : rec.log[i] = [stage |-> st, ok |-> TRUE]
StageFailed(rec, st) == \E i \in 1..Len(rec.log) : rec.log[i] = [stage |-> st, ok |-> FALSE]

\* the stages of the pipeline in handler order; verification is exists, open,
\* access and delivery is resolve, transfer
Order == <<"synthesis", "validation", "write", "exists", "open", "access",
           "transcoding", "resolve", "transfer">>

\* the log without the title lookup (before the pipeline) and the removal of
\* the WAV file (cleanup)
PipelineLog(rec) == SelectSeq(rec.log, LAMBDA e : e.stage \notin {"title", "remove"})

WavsOf(base) == {f \in files : f.ext = "wav" /\ f.base = base}
Mp3sOf(base) == {f \in files : f.ext = "mp3" /\ f.base = base}

\* number of runs, returned or not, that derived the base name b
RECURSIVE Copies(_, _)
Copies(B, S) ==
    IF S = {} THEN 0
    ELSE LET x == CHOOSE y \in S : TRUE IN CopiesIn(x, B) + Copies(B, S \ {x})
RunsNamed(b) ==
    Copies(waiting, {rec \in BagToSet(waiting) : rec.base = b})
        + Copies(finished, {rec \in BagToSet(finished) : rec.base = b})
        + (IF running.base = b THEN 1 ELSE 0)

\* the base names derived so far
BasesDerived == {rec.base : rec \in Live \cup BagToSet(finished)} \ {NoBase}

\* C1 (as claimed): a run that wrote its WAV file and then fails returns with
\* that WAV file gone from disk.
C1_CleanupOnFailure ==
    (AtReturn /\ running.result = "Failed" /\ StageOk(running, "write"))
        => WavsOf(running.base) = {}

\* C2 (as claimed): a run that ends Delivered leaves no WAV file of its own on
\* disk and exactly one MP3 file of its own.
C2_SuccessPostcondition ==
    (AtReturn /\ running.result = "Delivered")
        => /\ WavsOf(running.base) = {}
           /\ Cardinality(Mp3sOf(running.base)) = 1

\* C3: no exception of any stage leaves the handler: every run that ends ends
\* by a return (Skipped, Failed or Delivered), never with an exception leaving
\* the handler, and then the loop has the thread back for the next event.
C3_FailureIsolation ==
    /\ \A rec \in Live : rec.result # "Escaped"
    /\ \A rec \in BagToSet(finished) : rec.result \in {"Skipped", "Failed", "Delivered"}
    /\ \A rec \in BagToSet(waiting) : rec.pc \in AwaitPcs
    /\ running = NoRun \/ running.pc \in SyncPcs

\* C3 witness: a run failed after deriving its name and returned, and the run
\* of a later event, named in a later second, went through the whole pipeline
\* to Delivered.
C3_Witness ==
    /\ AtReturn /\ running.result = "Delivered"
    /\ \E rec \in BagToSet(finished) :
         /\ rec.result = "Failed" /\ rec.base # NoBase
         /\ rec.base[4] < running.base[4]

\* C4: the pipeline stages a run has attempted are a prefix of Order, and all
\* but the last of them succeeded.
C4_StageOrder ==
    \A rec \in Live :
        LET L == PipelineLog(rec) IN
        /\ Len(L) <= Len(Order)
        /\ \A i \in 1..Len(L) :
              /\ L[i].stage = Order[i]
              /\ (i < Len(L)) => L[i].ok

\* C4 witness: a run whose transcoding failed is at its return.
C4_Witness == AtReturn /\ StageFailed(running, "transcoding")

\* C5 (as claimed): two runs that derived their base names in the same second
\* have distinct WAV paths.
C5_NoCollision ==
    \A b1, b2 \in BasesDerived :
        (/\ b1[4] = b2[4]
         /\ b1 # b2 \/ RunsNamed(b1) >= 2)
            => WavPath(b1) # WavPath(b2)

\* C6 (as claimed): for every message identity there is at most one WAV file
\* and at most one MP3 file on disk.
C6_ArtifactCount ==
    \A c \in CHANNELS_TO_MONITOR, m \in MsgIds :
        /\ Cardinality({f \in files : f.ext = "wav" /\ f.base[2] = Abs(c)
                                        /\ f.base[3] = m}) <= 1
        /\ Cardinality({f \in files : f.ext = "mp3" /\ f.base[2] = Abs(c)
                                        /\ f.base[3] = m}) <= 1

\* C7 (as claimed): at most one run is between its start and its return.
C7_OneRunAtATime ==
    BagCardinality(waiting) + (IF running = NoRun THEN 0 ELSE 1) <= 1

\* C8: every step of a run whose text is None or "" leaves the files as they
\* are, attempts no pipeline stage, derives no name, sends nothing and raises
\* nothing; the run goes from the title lookup to the text test to its return
\* (Skipped), and what it leaves behind is a Skipped run without a name.
C8_EmptyTextNoOp ==
    [][/\ (/\ running'.text \in {"None", ""}
           /\ running'.pc # "idle"
           /\ running' # running)
             => /\ files' = files
                /\ PipelineLog(running') = <<>>
                /\ running'.base = NoBase
                /\ running'.sent = <<>>
                /\ \/ running'.pc = "text" /\ running'.result = "none"
                   \/ running'.pc = "return" /\ running'.result = "Skipped"
       /\ (/\ running.text \in {"None", ""}
           /\ running.pc # "idle"
           /\ running' # running)
             => /\ files' = files
                /\ \/ running'.pc = "return" /\ running'.text = running.text
                   \/ /\ running' = NoRun
                      /\ waiting' = waiting
                      /\ finished' = finished (+) SetToBag({[IdleRun EXCEPT
                                          !.pc = "done", !.result = "Skipped"]})]_vars

\* C8 witness: a run with the text "" is at its return.
C8_Witness == AtReturn /\ running.text = "" /\ running.result = "Skipped"

\* C9: when the buffer the TTS pipeline returned has an axis of length 0, the
\* run's step after synthesis takes it to its return (Failed), with no name
\* derived, no file touched and nothing sent; the return gives the thread back
\* and leaves a Failed run without a name.
C9_EmptySynthesis ==
    [][(/\ running.pc \in {"validate", "return"}
        /\ \E i \in 1..Len(running.speech_np) : running.speech_np[i] = 0
        /\ running' # running)
          => /\ files' = files
             /\ \/ /\ running'.pc = "return"
                   /\ running'.result = "Failed"
                   /\ running'.base = NoBase
                   /\ running'.sent = <<>>
                   /\ ~StageOk(running', "validation")
                \/ /\ running' = NoRun
                   /\ waiting' = waiting
                   /\ finished' = finished (+) SetToBag({[IdleRun EXCEPT
                                       !.pc = "done", !.result = "Failed"]})]_vars

\* C9 witness: a run whose squeezed buffer has length 0 is at its return.
C9_Witness ==
    /\ AtReturn /\ running.speech_np = <<0>>
    /\ StageFailed(running, "validation")

\* C10 (as claimed): a run whose transcoding succeeded has made exactly one
\* send_file call, for its MP3 file, captioned with the channel title and
\* the message id.
C10_ExactlyOneDelivery ==
    (AtReturn /\ StageOk(running, "transcoding"))
        => /\ Len(running.sent) = 1
           /\ running.sent[1].file = Mp3Path(running.base)
           /\ running.sent[1].caption[2] = EntityOf(running.chat_id).title
           /\ running.sent[1].caption[4] = running.message_id

\* C10 (amended): a run whose transcoding succeeded has made at most one
\* send_file call, and exactly one if the target chat was resolved; the call is
\* for the run's MP3 file, to the target chat, and its caption holds the message
\* id and the channel title, or 'Unknown' if the title lookup raised.
C10_OneDeliveryIfResolved ==
    (AtReturn /\ StageOk(running, "transcoding"))
        => /\ Len(running.sent) = (IF StageOk(running, "resolve") THEN 1 ELSE 0)
           /\ \A i \in 1..Len(running.sent) :
                 /\ running.sent[i].file = [base |-> running.base, ext |-> "mp3"]
                 /\ running.sent[i].to = "me"
                 /\ running.sent[i].caption[4] = running.message_id
                 /\ running.sent[i].caption[2] =
                       (IF StageOk(running, "title") THEN "News" ELSE "Unknown")

\* C10 witness: a run is at its return, Delivered, with the title looked up.
C10_Witness ==
    /\ AtReturn /\ running.result = "Delivered"
    /\ Len(running.sent) = 1 /\ StageOk(running, "title")

C12_EmptyChannelsFatal ==
    (channels = {})
        => /\ proc.pc # "waiting"
           /\ Started = 0
           /\ proc.connected => proc.pc = "exited"

\* C12 witness: the list is empty, the client was started and the process has
\* ended.
C12_Witness == channels = {} /\ proc.connected /\ proc.pc = "exited"

\* C13: no stage is attempted twice in one run.
C13_NoRetry ==
    \A rec \in Live :
        Cardinality({rec.log[i].stage : i \in 1..Len(rec.log)}) = Len(rec.log)

\* C13 witness: a run whose transfer raised is at its return, every stage
\* attempted.
C13_Witness ==
    /\ AtReturn /\ StageFailed(running, "transfer")
    /\ Len(PipelineLog(running)) = Len(Order)

\* C14 (as claimed): a run that fails in the delivery stage returns with none
\* of its files, WAV or MP3, on disk.
C14_NoArtifactsAfterDeliveryFailure ==
    (AtReturn /\ (StageFailed(running, "resolve") \/ StageFailed(running, "transfer")))
        => /\ WavsOf(running.base) = {}
           /\ Mp3sOf(running.base) = {}

\* the run has made the call of stage st
Attempted(rec, st) == \E i \in 1..Len(rec.log) : rec.log[i].stage = st

\* the log entries of a successful write followed by the three checks passed
WrittenAndVerified ==
    <<[stage |-> "write", ok |-> TRUE], [stage |-> "exists", ok |-> TRUE],
      [stage |-> "open", ok |-> TRUE], [stage |-> "access", ok |-> TRUE]>>

\* C15: a run is at the FFmpeg call, or has made it, only after its write
\* returned and then, in this order, the file was found to exist, was opened
\* by wave and was found readable, the FFmpeg call coming next; a run with one
\* of the three checks failed is at its return, Failed, has not called FFmpeg
\* and has no MP3 file.
C15_TranscodeGated ==
    \A rec \in Live :
        /\ (rec.pc = "ffmpeg" \/ Attempted(rec, "transcoding"))
              => LET L == PipelineLog(rec) IN
                 /\ Len(L) >= 6
                 /\ SubSeq(L, 3, 6) = WrittenAndVerified
                 /\ \A i \in 1..Len(L) : (L[i].stage = "transcoding") = (i = 7)
        /\ (\E i \in 1..Len(rec.log) :
                ~rec.log[i].ok /\ rec.log[i].stage \in {"exists", "open", "access"})
              => /\ rec.pc = "return" /\ rec.result = "Failed"
                 /\ ~Attempted(rec, "transcoding")
                 /\ Mp3sOf(rec.base) = {}

\* C15 witness: a run whose WAV file could not be opened by wave is at its
\* return.
C15_Witness == AtReturn /\ StageFailed(running, "open")

\* no run is unfinished, and every run that has returned ended in one of the
\* results T
AllEnded(T) == Live = {} /\ \A rec \in BagToSet(finished) : rec.result \in T

\* C16 (as claimed): every run that is started returns, Delivered or Failed:
\* from some point on no run is unfinished and every run has ended Delivered
\* or Failed.  (An event loop dispatches finitely many events in a behaviour
\* of the model, so a run that never returned would be unfinished for ever.)
C16_EndsDeliveredOrFailed == <>[]AllEnded({"Delivered", "Failed"})

\* C16 (amended): every run that is started returns, Delivered, Failed or, for
\* a message without text, Skipped.
C16_EndsDeliveredFailedOrSkipped == <>[]AllEnded({"Delivered", "Failed", "Skipped"})

\* C16 witness: every run has returned, one of them Skipped and one Delivered.
C16_Witness ==
    /\ Live = {} /\ Started >= 2
    /\ \E r1, r2 \in BagToSet(finished) :
          r1.result = "Skipped" /\ r2.result = "Delivered"

\* C17: the runs that ended Delivered have pairwise different names, and a run
\* that ends Delivered has made one send_file call, for its own MP3 file,
\* which is on disk and is not the file of any earlier delivery.
C17_NoDedup ==
    /\ \A rec \in BagToSet(finished) :
          rec.result = "Delivered" => CopiesIn(rec, finished) = 1
    /\ (AtReturn /\ running.result = "Delivered")
          => /\ Len(running.sent) = 1
             /\ running.sent[1].file = Mp3Path(running.base)
             /\ Mp3Path(running.base) \in files
             /\ \A rec \in BagToSet(finished) :
                   rec.result = "Delivered"
                      => /\ rec.base # running.base
                         /\ Mp3Path(rec.base) \in files

\* C17 witness: a run is at its return, Delivered, and an earlier run of the
\* same channel id and message id ended Delivered.
C17_Witness ==
    /\ AtReturn /\ running.result = "Delivered"
    /\ \E rec \in BagToSet(finished) :
          /\ rec.result = "Delivered"
          /\ rec.base[2] = running.base[2] /\ rec.base[3] = running.base[3]

\* the run has written its WAV file, has not deleted it and has not ended
WrittenNotDeleted(rec) ==
    StageOk(rec, "write") /\ ~StageOk(rec, "remove") /\ rec.pc # "return"

PastWait(rec) == StageOk(rec, "write") /\ rec.pc # "sleep"

\* C19: two runs that both got past the wait of line 101 have names with
\* different timestamps.
C19_DistinctSeconds ==
    LET P == {rec \in Live \cup BagToSet(finished) : PastWait(rec)} IN
    \A r1, r2 \in P :
        /\ (r1 # r2) => r1.base[4] # r2.base[4]
        /\ CopiesIn(r1, waiting) + CopiesIn(r1, finished) <= 1

\* C19 witness: a run that got past the wait is at its return and an earlier
\* run that got past the wait has returned.
C19_Witness ==
    /\ AtReturn /\ PastWait(running)
    /\ \E rec \in BagToSet(finished) : PastWait(rec)

\* C20: a run whose os.remove raised goes on to the delivery: it is at the
\* awaits of the delivery or has ended after attempting it, Failed only if the
\* delivery failed; its WAV file and its MP3 file are on disk.
C20_RemoveFailureSwallowed ==
    \A rec \in Live :
        StageFailed(rec, "remove")
          => /\ WavPath(rec.base) \in files /\ Mp3Path(rec.base) \in files
             /\ \/ rec.pc = "await_target" /\ ~Attempted(rec, "resolve")
                \/ rec.pc = "await_send" /\ StageOk(rec, "resolve")
                \/ /\ rec.pc = "return" /\ Attempted(rec, "resolve")
                   /\ rec.result = (IF StageOk(rec, "transfer") THEN "Delivered"
                                    ELSE "Failed")

\* C20 witness: a run whose os.remove raised is at its return, Delivered, with
\* its WAV file on disk.
C20_Witness ==
    /\ AtReturn /\ running.result = "Delivered" /\ StageFailed(running, "remove")
    /\ WavPath(running.base) \in files

====
